---- MODULE Spec2Model ----
(***************************************************************************)
(* A model of regain/bayesian/sampling.py: the elliptical slice sampler    *)
(* (elliptical_slice), the Metropolis-Hastings step for the kernel         *)
(* hyperparameter (sample_hyper_kernel) and the per-element sweep over the *)
(* free elements of the Cholesky factor (sample_L2 / _sample_ell_comp).    *)
(*                                                                         *)
(* Numbers.  The latent tensor has shape (v, p, N) = (1, 1, 2), so a       *)
(* tensor is a sequence of N integers.  Angles are counted in quarter      *)
(* turns (TwoPi = 4), where cos and sin are exactly -1, 0 or 1.  A         *)
(* np.random.uniform() draw is an index u in 0..UDen-1 standing for        *)
(* u/UDen.  A float is <<"f", n>>, minus infinity is <<"-inf", 0>> and     *)
(* Python's None is <<"None", 0>>.  Log-likelihoods are integers counted   *)
(* in quanta (the spacing of the floats at their magnitude); the slice     *)
(* offset 0.001*log(u) is counted in Sub-th parts of a quantum and the     *)
(* float addition that forms the threshold rounds to the nearest quantum.  *)
(***************************************************************************)
EXTENDS Integers, Sequences, FiniteSets, TLC

\* ---------------------------------------------------------------- bounds
MaxIter == 2      \* largest max_iter argument tried
MaxCalls == 2     \* calls of elliptical_slice in one behaviour
UDen == 4         \* grid of np.random.uniform(): u/UDen, u in 0..UDen-1
Sub == 4          \* parts of a quantum in which 0.001*log(u) is counted

\* ---------------------------------------------------------------- floats
Fin(n) == <<"f", n>>
NegInf == <<"-inf", 0>>
None == <<"None", 0>>

\* a > b on floats (neither is None)
Gt(a, b) ==
    IF a = NegInf THEN FALSE
    ELSE IF b = NegInf THEN TRUE
    ELSE a[2] > b[2]

\* n/d rounded to the nearest integer, ties to even: IEEE round-to-nearest
RoundNearestEven(n, d) ==
    LET q == n \div d
        r == n % d
    IN  IF 2 * r < d THEN q
        ELSE IF 2 * r > d THEN q + 1
        ELSE IF q % 2 = 0 THEN q ELSE q + 1

\* np.log(u) of a uniform draw u/UDen, in Sub-th parts of a quantum after
\* the factor 0.001: log(0) = -inf, and log(u) < 0 for 0 < u < 1, nearer 0
\* the nearer u is to 1
SliceOffset(u) == IF u = 0 THEN NegInf ELSE Fin(-(UDen - u))

\* hh = 0.001 * np.log(np.random.uniform()) + cur_log_like, a float addition:
\* the exact sum rounded to the nearest quantum
SliceThreshold(u, cll) ==
    IF SliceOffset(u) = NegInf THEN NegInf
    ELSE Fin(RoundNearestEven(cll[2] * Sub + SliceOffset(u)[2], Sub))

\* ---------------------------------------------------------------- angles
TwoPi == 4

Cos(phi) == CASE phi % TwoPi = 0 -> 1
              [] phi % TwoPi = 1 -> 0
              [] phi % TwoPi = 2 -> -1
              [] OTHER -> 0

Sin(phi) == CASE phi % TwoPi = 0 -> 0
              [] phi % TwoPi = 1 -> 1
              [] phi % TwoPi = 2 -> 0
              [] OTHER -> -1

\* np.random.uniform() * (hi - lo) + lo on the grid
UniformIn(u, lo, hi) == lo + ((u * (hi - lo)) \div UDen)

\* ---------------------------------------------------------------- tensors
Shape == <<1, 1, 2>>
N == Shape[3]
Dim == Shape[1] * Shape[2] * Shape[3]

RECURSIVE Prod(_)
Prod(s) == IF s = <<>> THEN 1 ELSE Head(s) * Prod(Tail(s))

RECURSIVE SumSeq(_)
SumSeq(s) == IF s = <<>> THEN 0 ELSE Head(s) + SumSeq(Tail(s))

\* uut = np.array([u.dot(u.T) for u in xx_proposal.T]); with v = p = 1 each
\* u is 1 x 1
CrossProducts(t) == [i \in 1..Len(t) |-> t[i] * t[i]]

\* GWP_construct(umat, L, uut): M[..., i] = L uut[i] L^T, here 1 x 1
GWP_construct(L, uut) == [i \in 1..Len(uut) |-> L * uut[i] * L]

\* log_lik_frob(S, V, variance): -0.5 * ||S - V||_F^2 / variance, in the
\* quanta of the model
log_lik_frob(S, V, variance) ==
    Fin(-((2 * SumSeq([i \in 1..Len(S) |-> (S[i] - V[i]) * (S[i] - V[i])]))
            \div variance))

\* xx_proposal = np.real(initial_theta * cos(phi) + nu * sin(phi))
ProposalMut(theta, nu_, phi_) ==
    [i \in 1..Len(theta) |-> theta[i] + nu_[i] * Sin(phi_)]
Proposal(theta, nu_, phi_) ==
    [i \in 1..Len(theta) |-> theta[i] * Cos(phi_) + nu_[i] * Sin(phi_)]

\* ---------------------------------------------------------------- priors
\* A prior is an array: its shape and its entries (row by row).
PriorSamples ==
    { [shape |-> <<2>>, data |-> <<0, 0>>],
      [shape |-> <<1, 1, 2>>, data |-> <<0, 1>>] }

PriorChols ==
    { [shape |-> <<2, 2>>, data |-> <<1, 0, 1, 1>>] }

PriorBad ==
    { [shape |-> <<3>>, data |-> <<0, 0, 0>>],
      [shape |-> <<4>>, data |-> <<1, 0, 0, 1>>],
      [shape |-> <<2, 2, 2>>, data |-> <<0, 0, 0, 0, 0, 0, 0, 0>>] }

Priors == PriorSamples \cup PriorChols \cup PriorBad

Size(prior) == Prod(prior.shape)

\* prior.size == D
PriorIsSample(prior) == Size(prior) = Dim

\* prior.shape != (D, D)
PriorIsChol(prior) == prior.shape = <<Dim, Dim>>

\* np.random.normal(size=D) on a grid
Normals == {0, 1}
NormalDraws == [1..Dim -> Normals]

\* np.reshape(prior.T.dot(z), initial_theta.shape)
CholSample(prior, z) ==
    [i \in 1..Dim |->
        SumSeq([j \in 1..Dim |-> prior.data[(j - 1) * Dim + i] * z[j]])]

\* ---------------------------------------------------------------- state
VARIABLES
    st,                  \* the state bundle xx: fields xx, uut, V, S, L
    pc,                  \* "idle", "loop", "returned", "ValueError", "RuntimeError"
    calls,               \* calls made so far
    entry,               \* the bundle as it was when the call began
    prior, variance, angle_range, max_iter,      \* the arguments
    initial_theta,
    cur_log_like,
    cur_log_like_start,
    nu,
    hh,
    phi, phi_min, phi_max,
    iteration_,
    error,
    xx_proposal, uut, V,
    ret,                 \* the returned log-likelihood
    ndraws               \* calls of np.random made by the call so far

\* the hyperparameter sampler and the Cholesky-factor sweep
VARIABLES
    hk,                  \* sample_hyper_kernel: one call and its result
    l2                   \* sample_L2: the sweep

args == <<prior, variance, angle_range, max_iter>>
bracket == <<phi, phi_min, phi_max>>
proposed == <<xx_proposal, uut, V>>

sliceVars == <<st, pc, calls, entry, args, initial_theta, cur_log_like,
               cur_log_like_start, nu, hh, bracket, iteration_, error,
               proposed, ret, ndraws>>

vars == <<sliceVars, hk, l2>>

\* ------------------------------------------------------- elliptical_slice
Bundle(theta, S, L) ==
    [xx |-> theta, uut |-> CrossProducts(theta),
     V |-> GWP_construct(L, CrossProducts(theta)), S |-> S, L |-> L]

Thetas == { <<1, 1>>, <<1, 0>> }
Observed == { <<1, 1>> }
Factors == { 1 }
Variances == { 1 }
AngleRanges == { 0, 2 }

Zeros == [i \in 1..N |-> 0]
NoPrior == [shape |-> <<2>>, data |-> <<0, 0>>]

\* no call is running: there is no frame
NoFrame ==
    /\ pc' = "idle"
    /\ entry' = st'
    /\ prior' = NoPrior /\ variance' = 1 /\ angle_range' = 0 /\ max_iter' = 0
    /\ initial_theta' = st'.xx
    /\ cur_log_like' = None /\ cur_log_like_start' = None
    /\ nu' = Zeros /\ hh' = NegInf
    /\ phi' = 0 /\ phi_min' = 0 /\ phi_max' = 0
    /\ iteration_' = 0 /\ error' = FALSE
    /\ xx_proposal' = Zeros /\ uut' = Zeros /\ V' = Zeros
    /\ ret' = None /\ ndraws' = 0

\* the bundle the outer sampler built, and no call running
SliceIdle ==
    /\ pc = "idle"
    /\ calls = 0
    /\ entry = st
    /\ prior = NoPrior /\ variance = 1 /\ angle_range = 0 /\ max_iter = 0
    /\ initial_theta = st.xx
    /\ cur_log_like = None /\ cur_log_like_start = None
    /\ nu = Zeros /\ hh = NegInf
    /\ phi = 0 /\ phi_min = 0 /\ phi_max = 0
    /\ iteration_ = 0 /\ error = FALSE
    /\ xx_proposal = Zeros /\ uut = Zeros /\ V = Zeros
    /\ ret = None /\ ndraws = 0

InitSlice ==
    /\ st \in { Bundle(t, S, L) : t \in Thetas, S \in Observed, L \in Factors }
    /\ SliceIdle
    /\ hk = 0 /\ l2 = 0

\* the cur_log_like arguments a caller passes: None, the log-likelihood of
\* the bundle, or a value that is off (a stale one)
CurLogLikeArgs(b, var) ==
    { None, log_lik_frob(b.S, b.V, var),
      Fin(log_lik_frob(b.S, b.V, var)[2] + 2) }

\* line 121: revert to initial point
Revert(b, theta) == [b EXCEPT !.xx = theta]

\* lines 122-126: update with the new point
CommitMut(b, prop, uut_, V_) == [b EXCEPT !.xx = prop, !.V = V_]
Commit(b, prop, uut_, V_) == [b EXCEPT !.uut = uut_, !.xx = prop, !.V = V_]

\* line 129: cur_log_like_start if error else cur_log_like
ReturnedLogLikeMut(err, start, cur) == cur
ReturnedLogLike(err, start, cur) == IF err THEN start ELSE cur

\* lines 60-62
CurrentLogLike(cll, b, var) ==
    IF cll = None THEN log_lik_frob(b.S, b.V, var) ELSE cll

\* lines 65-73: nu, for every np.random.normal(size=D) the call may draw
NuDraws(pr) ==
    IF PriorIsSample(pr) THEN { pr.data }
    ELSE { CholSample(pr, z) : z \in NormalDraws }

\* lines 77-88: the bracket and the first proposal
BracketWhole(u) ==
    [phi |-> (u * TwoPi) \div UDen,
     phi_min |-> ((u * TwoPi) \div UDen) - TwoPi,
     phi_max |-> (u * TwoPi) \div UDen]

BracketCentred(ar, u1, u2) ==
    LET lo == -((ar * u1) \div UDen)
    IN  [phi |-> UniformIn(u2, lo, lo + ar), phi_min |-> lo, phi_max |-> lo + ar]

\* lines 79-88, for every pair of uniform draws
Brackets(ar) ==
    IF ar <= 0 THEN { BracketWhole(u) : u \in 0..(UDen - 1) }
    ELSE { BracketCentred(ar, u1, u2) : u1 \in 0..(UDen - 1), u2 \in 0..(UDen - 1) }

\* the calls of np.random made by lines 65-88
SetupDraws(pr, ar) ==
    (IF PriorIsSample(pr) THEN 0 ELSE 1) + 1 + (IF ar <= 0 THEN 1 ELSE 2)

\* lines 53-72 with a prior of neither shape: raise ValueError
BadPriorMut(pr, cll) ==
    /\ ~PriorIsSample(pr) /\ ~PriorIsChol(pr)
    /\ pc' = "ValueError"
    /\ ndraws' = 1
    /\ initial_theta' = st.xx
    /\ cur_log_like_start' = cll
    /\ cur_log_like' = CurrentLogLike(cll, st, variance')
    /\ UNCHANGED <<st, nu, hh, bracket, iteration_, error, proposed, ret>>

BadPrior(pr, cll) ==
    /\ ~PriorIsSample(pr) /\ ~PriorIsChol(pr)
    /\ pc' = "ValueError"
    /\ ndraws' = 0
    /\ initial_theta' = st.xx
    /\ cur_log_like_start' = cll
    /\ cur_log_like' = CurrentLogLike(cll, st, variance')
    /\ UNCHANGED <<st, nu, hh, bracket, iteration_, error, proposed, ret>>

\* lines 53-91 with a valid prior
Setup(pr, cll) ==
    /\ PriorIsSample(pr) \/ PriorIsChol(pr)
    /\ nu' \in NuDraws(pr)
    /\ cur_log_like' = CurrentLogLike(cll, st, variance')
    /\ \E uh \in 0..(UDen - 1) : hh' = SliceThreshold(uh, cur_log_like')
    /\ \E br \in Brackets(angle_range') :
          phi' = br.phi /\ phi_min' = br.phi_min /\ phi_max' = br.phi_max
    /\ ndraws' = SetupDraws(pr, angle_range')
    /\ pc' = "loop"
    /\ initial_theta' = st.xx
    /\ cur_log_like_start' = cll
    /\ UNCHANGED <<st, iteration_, error, proposed, ret>>

\* the caller's arguments
CallArgs(pr, var, ar, mi) ==
    /\ pc = "idle"
    /\ calls < MaxCalls
    /\ calls' = calls + 1
    /\ entry' = st
    /\ prior' = pr
    /\ variance' = var
    /\ angle_range' = ar
    /\ max_iter' = mi

CallBad ==
    \E pr \in Priors, var \in Variances, ar \in AngleRanges, mi \in 0..MaxIter :
      \E cll \in CurLogLikeArgs(st, var) :
        /\ CallArgs(pr, var, ar, mi)
        /\ BadPrior(pr, cll)
        /\ UNCHANGED <<hk, l2>>

Call ==
    \E pr \in Priors, var \in Variances, ar \in AngleRanges, mi \in 0..MaxIter :
      \E cll \in CurLogLikeArgs(st, var) :
        /\ CallArgs(pr, var, ar, mi)
        /\ Setup(pr, cll)
        /\ UNCHANGED <<hk, l2>>

\* lines 94-97 for the current phi
PropTensor == Proposal(initial_theta, nu, phi)
PropUut == CrossProducts(PropTensor)
PropV == GWP_construct(st.L, PropUut)
PropLogLike == log_lik_frob(st.S, PropV, variance)

\* line 99
OnSlice(ll, thr) == Gt(ll, thr)

\* lines 94-97
Evaluate ==
    /\ pc = "loop" /\ iteration_ < max_iter
    /\ xx_proposal' = PropTensor /\ uut' = PropUut /\ V' = PropV
    /\ cur_log_like' = PropLogLike

\* lines 99-101 then 122-129: the proposal is on the slice
Accept ==
    /\ Evaluate
    /\ OnSlice(PropLogLike, hh)
    /\ st' = Commit(st, PropTensor, PropUut, PropV)
    /\ ret' = ReturnedLogLike(error, cur_log_like_start, PropLogLike)
    /\ pc' = "returned"
    /\ UNCHANGED <<calls, entry, args, initial_theta, cur_log_like_start, nu,
                   hh, bracket, iteration_, error, ndraws, hk, l2>>

\* lines 103-107: the edge the rejected phi replaces
ShrunkMut(phi_, lo, hi) ==
    IF phi_ > 0 THEN [phi_min |-> phi_, phi_max |-> hi]
    ELSE [phi_min |-> lo, phi_max |-> phi_]
Shrunk(phi_, lo, hi) ==
    IF phi_ > 0 THEN [phi_min |-> lo, phi_max |-> phi_]
    ELSE [phi_min |-> phi_, phi_max |-> hi]

\* lines 103-107 and 115: rejected at phi # 0, shrink and propose again
Shrink ==
    /\ Evaluate
    /\ ~OnSlice(PropLogLike, hh)
    /\ phi # 0
    /\ phi_min' = Shrunk(phi, phi_min, phi_max).phi_min
    /\ phi_max' = Shrunk(phi, phi_min, phi_max).phi_max
    /\ \E u \in 0..(UDen - 1) : phi' = UniformIn(u, phi_min', phi_max')
    /\ ndraws' = ndraws + 1
    /\ iteration_' = iteration_ + 1
    /\ UNCHANGED <<st, pc, calls, entry, args, initial_theta,
                   cur_log_like_start, nu, hh, error, ret, hk, l2>>

\* lines 108-112: rejected at phi == 0
FatalMut ==
    /\ Evaluate
    /\ ~OnSlice(PropLogLike, hh)
    /\ phi = 0
    /\ IF iteration_ + 1 = max_iter
       THEN pc' = "returned" /\ error' = TRUE /\ ret' = cur_log_like_start
       ELSE pc' = "RuntimeError" /\ error' = error /\ ret' = ret
    /\ UNCHANGED <<st, calls, entry, args, initial_theta, cur_log_like_start,
                   nu, hh, bracket, iteration_, ndraws, hk, l2>>

Fatal ==
    /\ Evaluate
    /\ ~OnSlice(PropLogLike, hh)
    /\ phi = 0
    /\ pc' = "RuntimeError"
    /\ UNCHANGED <<st, calls, entry, args, initial_theta, cur_log_like_start,
                   nu, hh, bracket, iteration_, error, ret, ndraws, hk, l2>>

\* lines 116-121 and 129: the loop ran max_iter times without a break
Exhausted ==
    /\ pc = "loop" /\ iteration_ = max_iter
    /\ error' = TRUE
    /\ st' = Revert(st, initial_theta)
    /\ ret' = ReturnedLogLike(error', cur_log_like_start, cur_log_like)
    /\ pc' = "returned"
    /\ UNCHANGED <<calls, entry, args, initial_theta, cur_log_like,
                   cur_log_like_start, nu, hh, bracket, iteration_, proposed,
                   ndraws, hk, l2>>

\* the call is over (it returned or raised): its frame is gone and the
\* caller keeps the bundle
Forget ==
    /\ pc \in {"returned", "ValueError", "RuntimeError"}
    /\ st' = st
    /\ NoFrame
    /\ UNCHANGED <<calls, hk, l2>>

NextSlice ==
    Call \/ CallBad \/ Accept \/ Shrink \/ Fatal \/ Exhausted \/ Forget

SpecSlice == InitSlice /\ [][NextSlice]_vars

\* ---------------------------------------------------- sample_hyper_kernel
\* The hyperparameter is a positive number on a grid 1..MaxTheta.  A
\* log-posterior is an integer counted in units of log 2, so that
\* exp(a - b) is 2^(a - b).  A probability is a fraction <<num, den>>.
MaxTheta == 3     \* the hyperparameter grid 1..MaxTheta
HyperCalls == 2   \* calls of sample_hyper_kernel in one behaviour
ExpCap == 20      \* largest exponent of 2 formed

HyperGrid == 1..MaxTheta
VarProposals == { 1, 2 }

Abs(x) == IF x < 0 THEN -x ELSE x
Min(a, b) == IF a <= b THEN a ELSE b
\* 2^k, the exponent capped so that the products stay machine integers
Pow2(k) == 2 ^ Min(k, ExpCap)

\* The data of a call: t is one time point, umat has shape (1, 1, 1), kern
\* is the user's kernel and mean_prior the prior's mean (var_prior is fixed).
HyperData ==
    [kern : {"unit", "decay"}, umat : {0, 1}, mean_prior : {1, 2}]

\* kern(t[:, None], inverse_width), a 1 x 1 matrix: its determinant is
\* 2^-KernExponent, so that fast_logdet(K) = -KernExponent and
\* linalg.pinvh(K) = 2^KernExponent
KernExponent(kern, inverse_width) ==
    IF kern = "unit" THEN 0 ELSE inverse_width

\* lognormal_logpdf(x, mu, sigma) with (mu, sigma) = lognstat(mean, var)
lognormal_logpdf(x, mean) == -((x - mean) * (x - mean))

\* logpunorm(inverse_width, t, umat, kern, mean_prior, var_prior); the term
\* umat.size * log(2 pi) is the same in every evaluation and is left out,
\* and the unit absorbs the factor 0.5
logpunorm(inverse_width, data) ==
    LET logdet == -KernExponent(data.kern, inverse_width)
        k_inverse == 2 ^ KernExponent(data.kern, inverse_width)
        F == data.umat * data.umat
        logpugl == -(logdet + F * k_inverse)
        logp_prior == lognormal_logpdf(inverse_width, data.mean_prior)
    IN  logpugl + logp_prior

\* lognormal_pdf(x, mu, sigma) with (mu, sigma) = lognstat(centre, var): a
\* positive density, not symmetric in x and centre
lognormal_pdf(x, centre, var) ==
    (MaxTheta * var - Abs(x - centre)) * (MaxTheta + 1 - x)

\* np.random.lognormal(mu, sigma): any point of the positive grid
LognormalDraws == HyperGrid

\* lines 174-175: min(1, exp(logpzast - logpztau) * (qztauzast / qzastztau))
AcceptanceProbaMut(logpzast, logpztau, qztauzast, qzastztau) ==
    LET d == logpztau - logpzast
        num == (IF d >= 0 THEN Pow2(d) ELSE 1) * qztauzast
        den == (IF d >= 0 THEN 1 ELSE Pow2(-d)) * qzastztau
    IN  <<Min(num, den), den>>
AcceptanceProba(logpzast, logpztau, qztauzast, qzastztau) ==
    LET d == logpzast - logpztau
        num == (IF d >= 0 THEN Pow2(d) ELSE 1) * qztauzast
        den == (IF d >= 0 THEN 1 ELSE Pow2(-d)) * qzastztau
    IN  <<Min(num, den), den>>

\* line 178: np.random.uniform() < acceptance_proba
UniformBelow(u, proba) == u * proba[2] < UDen * proba[1]

\* line 179: proposal if accept else initial_theta
Chosen(accept, proposal, theta) == IF accept THEN proposal ELSE theta

\* lines 162-180
sample_hyper_kernel(theta, var_proposal, data, proposal, u) ==
    LET logpzast == logpunorm(proposal, data)
        qzastztau == lognormal_pdf(proposal, theta, var_proposal)
        logpztau == logpunorm(theta, data)
        qztauzast == lognormal_pdf(theta, proposal, var_proposal)
        acceptance_proba ==
            AcceptanceProba(logpzast, logpztau, qztauzast, qzastztau)
        accept == UniformBelow(u, acceptance_proba)
    IN  [sample |-> Chosen(accept, proposal, theta), accept |-> accept]

InitHyper ==
    /\ st = Bundle(<<1, 1>>, <<1, 1>>, 1)
    /\ SliceIdle
    /\ l2 = 0
    /\ hk \in { [calls |-> 0, initial_theta |-> th, var_proposal |-> 1,
                 data |-> [kern |-> "unit", umat |-> 0, mean_prior |-> 1],
                 proposal |-> th, u |-> 0,
                 sample |-> th, accept |-> FALSE] : th \in HyperGrid }

\* one call from the outer loop, which threads the hyperparameter: the
\* sample of a call is the initial_theta of the next
HyperCall ==
    /\ hk.calls < HyperCalls
    /\ \E vp \in VarProposals, data \in HyperData,
          proposal \in LognormalDraws, u \in 0..(UDen - 1) :
        LET r == sample_hyper_kernel(hk.sample, vp, data, proposal, u)
        IN  hk' = [calls |-> hk.calls + 1, initial_theta |-> hk.sample,
                   var_proposal |-> vp, data |-> data, proposal |-> proposal,
                   u |-> u, sample |-> r.sample, accept |-> r.accept]
    /\ UNCHANGED <<sliceVars, l2>>

NextHyper == HyperCall

SpecHyper == InitHyper /\ [][NextHyper]_vars

\* --------------------------------------------------------------- sample_L2
\* L is p x p with p = 2: its free elements are the lower triangle, row by
\* row.  umat has shape (v, p, n) = (1, 2, 1); S has shape (p, p, n), held
\* as the sequence of its p * p entries.
MatMul(A, B) ==
    [i \in 1..Len(A) |-> [j \in 1..Len(B[1]) |->
        SumSeq([k \in 1..Len(B) |-> A[i][k] * B[k][j]])]]
Transpose(A) == [j \in 1..Len(A[1]) |-> [i \in 1..Len(A) |-> A[i][j]]]
Flatten(A) == [k \in 1..(Len(A) * Len(A[1])) |->
                 A[((k - 1) \div Len(A[1])) + 1][((k - 1) % Len(A[1])) + 1]]

\* L = np.zeros_like(S[..., 0]); L[np.tril_indices_from(L)] = Lv
Tril(Lv) == << <<Lv[1], 0>>, <<Lv[2], Lv[3]>> >>

\* uut of umat: u.dot(u.T) for the one time point
Outer(u) == [i \in 1..Len(u) |-> [j \in 1..Len(u) |-> u[i] * u[j]]]

\* log_likelihood_normal(x, mean, variance)
log_likelihood_normal(x, mean, var) == -((2 * (x - mean) * (x - mean)) \div var)

\* logp_ell_posterior(Lv, i, S, umat, var_err, mu_prior, var_prior)
logp_ell_posterior(Lv, i, S, umat, var_err, mu_prior, var_prior) ==
    LET L == Tril(Lv)
        D == MatMul(MatMul(L, Outer(umat)), Transpose(L))
        logpS == log_lik_frob(S, Flatten(D), var_err)[2]
        logpL == log_likelihood_normal(Lv[i], mu_prior, var_prior)
    IN  logpS + logpL

\* stats.norm.pdf(x, m, s): a positive density of |x - m|
norm_pdf(x, m) == 4 - Min(Abs(x - m), 3)

\* the inputs of a sweep
L2Inits == { <<1, 0, 1>>, <<1, 1, 0>> }
L2Umat == <<1, 1>>
L2S == <<1, 1, 1, 2>>
L2Priors == [mu |-> <<1, 0, 1>>, var |-> <<2, 2, 2>>]
\* np.random.normal(Ltau, sqrt(sigma2Lprop)) - Ltau on a grid
NormalSteps == {-1, 0, 1}

\* lines 245-263: the value chosen for element i, with what it evaluated
sample_ell_comp(Ltaug, i, step, u) ==
    LET Ltau == Ltaug[i]
        Last == Ltau + step
        Lastg == [Ltaug EXCEPT ![i] = Last]
        logpLast == logp_ell_posterior(Lastg, i, L2S, L2Umat, 1,
                                       L2Priors.mu[i], L2Priors.var[i])
        q_ast_tau == norm_pdf(Last, Ltau)
        logpLtau == logp_ell_posterior(Ltaug, i, L2S, L2Umat, 1,
                                       L2Priors.mu[i], L2Priors.var[i])
        q_tau_ast == norm_pdf(Ltau, Last)
        A == AcceptanceProba(logpLast, logpLtau, q_tau_ast, q_ast_tau)
    IN  [value |-> IF UniformBelow(u, A) THEN Last ELSE Ltau,
         evaluated |-> [i |-> i, Last |-> Last, cur |-> Ltaug, prop |-> Lastg]]

\* line 236: Ltau[i] = L_proposal[i]
WriteBackMut(Ltau, i, value) == Ltau
WriteBack(Ltau, i, value) == [Ltau EXCEPT ![i] = value]

InitL2 ==
    /\ st = Bundle(<<1, 1>>, <<1, 1>>, 1)
    /\ SliceIdle
    /\ hk = 0
    /\ l2 \in { [pc |-> "idle", i |-> 0, Ltau |-> v0, entry |-> v0,
                 L_proposal |-> <<>>, evals |-> <<>>, ret |-> <<>>] :
                v0 \in L2Inits }

\* lines 230-231
L2Call ==
    /\ l2.pc = "idle"
    /\ l2' = [l2 EXCEPT !.pc = "loop", !.i = 0, !.entry = l2.Ltau,
                        !.L_proposal = [k \in 1..Len(l2.Ltau) |-> 0]]
    /\ UNCHANGED <<sliceVars, hk>>

\* lines 232-236: one turn of the loop (the index i of the code is l2.i,
\* counted from 0)
L2Step ==
    /\ l2.pc = "loop" /\ l2.i < Len(l2.Ltau)
    /\ \E step \in NormalSteps, u \in 0..(UDen - 1) :
        LET r == sample_ell_comp(l2.Ltau, l2.i + 1, step, u)
        IN  l2' = [l2 EXCEPT !.L_proposal[l2.i + 1] = r.value,
                             !.Ltau = WriteBack(l2.Ltau, l2.i + 1, r.value),
                             !.evals = Append(l2.evals, r.evaluated),
                             !.i = l2.i + 1]
    /\ UNCHANGED <<sliceVars, hk>>

\* line 238
L2Return ==
    /\ l2.pc = "loop" /\ l2.i = Len(l2.Ltau)
    /\ l2' = [l2 EXCEPT !.pc = "returned", !.ret = l2.L_proposal]
    /\ UNCHANGED <<sliceVars, hk>>

NextL2 == L2Call \/ L2Step \/ L2Return

SpecL2 == InitL2 /\ [][NextL2]_vars

\* ------------------------------------------------- claims: elliptical_slice
\* the cur_log_like argument is None or the log-likelihood of the bundle
AccurateArg ==
    \/ cur_log_like_start = None
    \/ cur_log_like_start =
         log_lik_frob(entry.S, GWP_construct(entry.L, CrossProducts(entry.xx)),
                      variance)

\* the cached fields are the ones derived from xx and L
Consistent(b) ==
    /\ b.uut = [i \in 1..Len(b.xx) |-> b.xx[i] * b.xx[i]]
    /\ b.V = [i \in 1..Len(b.xx) |-> b.L * (b.xx[i] * b.xx[i]) * b.L]

C2_FatalAtZero ==
    [][ (pc = "loop" /\ iteration_ < max_iter /\ phi = 0
         /\ ~Gt(log_lik_frob(st.S,
                  GWP_construct(st.L, CrossProducts(Proposal(initial_theta, nu, 0))),
                  variance), hh))
        => (pc' = "RuntimeError" /\ st' = st /\ st' = entry /\ ret' = None
            /\ phi_min' = phi_min /\ phi_max' = phi_max) ]_vars

C2_Witness ==
    /\ pc = "RuntimeError"
    /\ iteration_ >= 1 /\ iteration_ + 1 = max_iter
    /\ phi = 0
    /\ st = entry

\* C3: a prior whose shape is neither a D-element sample nor (D, D) raises
\* ValueError before any random number is drawn, and the bundle is not
\* modified.
C3_BadPrior ==
    (pc # "idle" /\ Prod(prior.shape) # Dim /\ prior.shape # <<Dim, Dim>>) =>
        /\ pc = "ValueError"
        /\ ndraws = 0
        /\ st = entry

C3_Witness ==
    /\ pc = "ValueError"
    /\ prior.shape = <<Dim * Dim>>
    /\ calls = 2
    /\ ndraws = 0

\* C4: V and uut are always the values derived from the current xx and L:
\* an acceptance replaces xx, uut and V together by the accepted proposal's,
\* and a soft failure or a raised error changes none of them.
C4_CacheConsistent ==
    /\ Consistent(st)
    /\ (pc = "returned" /\ ~error) =>
          st.xx = xx_proposal /\ st.uut = uut /\ st.V = V
    /\ (pc \in {"ValueError", "RuntimeError"} \/ (pc = "returned" /\ error)) =>
          st = entry

C4_Witness ==
    /\ pc = "returned" /\ ~error
    /\ calls = 2
    /\ max_iter = MaxIter /\ iteration_ + 1 = max_iter
    /\ st.xx # entry.xx /\ st.V # entry.V

\* C5: every normal return gives the log-likelihood of the returned state's
\* latent tensor, with an accurate cur_log_like or None, on acceptance and
\* on exhaustion.
C5_ReturnedIsLogLikeOfState ==
    (pc = "returned" /\ AccurateArg) =>
        ret = log_lik_frob(st.S, GWP_construct(st.L, CrossProducts(st.xx)),
                           variance)

\* C8: with max_iter = 1 and a prior sample equal to zero the returned xx is
\* the original xx, the proposal accepted or not.
C8_ZeroPriorKeepsXx ==
    (pc = "returned" /\ max_iter = 1 /\ PriorIsSample(prior) /\ nu = Zeros) =>
        st.xx = entry.xx

\* C8 as amended: the returned xx is the original xx when the proposal is
\* rejected and the original xx times cos(phi) when it is accepted.
C8_ZeroPriorScalesXx ==
    (pc = "returned" /\ max_iter = 1 /\ PriorIsSample(prior) /\ nu = Zeros) =>
        /\ error => st.xx = entry.xx
        /\ ~error => st.xx = [i \in 1..N |-> entry.xx[i] * Cos(phi)]

C8_Witness ==
    /\ pc = "returned" /\ max_iter = 1 /\ PriorIsSample(prior) /\ nu = Zeros
    /\ ~error
    /\ st.xx # entry.xx

\* C9: with a finite accurate cur_log_like (or None and a consistent V) the
\* RuntimeError is unreachable.
C9_FatalUnreachable ==
    (AccurateArg /\ Consistent(entry)) => pc # "RuntimeError"

\* C10: in the loop phi_min <= 0 <= phi_max and phi_min <= phi <= phi_max,
\* for both initialisations of the bracket, and a rejection replaces the
\* upper edge by phi when phi > 0 and the lower edge when phi < 0, leaving
\* the other edge as it was.
C10_Bracket ==
    /\ [](pc = "loop" =>
            /\ phi_min <= 0 /\ 0 <= phi_max
            /\ phi_min <= phi /\ phi <= phi_max)
    /\ [][ (pc = "loop" /\ pc' = "loop" /\ iteration_' = iteration_ + 1) =>
            /\ phi > 0 => (phi_max' = phi /\ phi_min' = phi_min)
            /\ phi < 0 => (phi_min' = phi /\ phi_max' = phi_max)
            /\ phi # 0
            /\ phi_max' - phi_min' <= phi_max - phi_min ]_vars

C10_Witness ==
    /\ pc = "loop" /\ iteration_ = 2
    /\ angle_range <= 0
    /\ phi_min < 0 /\ phi_max > 0 /\ phi < 0
    /\ phi_max - phi_min < TwoPi - 1

\* ---------------------------------------------- claims: sample_hyper_kernel
\* exp(logpost(proposal) - logpost(current)) * q(current|proposal)
\* / q(proposal|current), as the fraction <<num, den>>
HkRatio ==
    LET a == logpunorm(hk.proposal, hk.data)
        b == logpunorm(hk.initial_theta, hk.data)
        qr == lognormal_pdf(hk.initial_theta, hk.proposal, hk.var_proposal)
        qf == lognormal_pdf(hk.proposal, hk.initial_theta, hk.var_proposal)
    IN  IF a >= b THEN <<(2 ^ (a - b)) * qr, qf>>
        ELSE <<qr, (2 ^ (b - a)) * qf>>

\* u/UDen < min(1, ratio)
HkDrawBelow ==
    /\ hk.u < UDen
    /\ hk.u * HkRatio[2] < UDen * HkRatio[1]

\* C6: with a strictly positive current value the result is strictly
\* positive and is the current value or the proposal; the accept flag is
\* True if and only if the returned value is the proposal, which is exactly
\* when the uniform draw is strictly below the acceptance probability.
C6_AcceptIffProposal ==
    hk.calls > 0 =>
        /\ hk.sample > 0
        /\ hk.sample \in {hk.initial_theta, hk.proposal}
        /\ hk.accept <=> (hk.sample = hk.proposal)
        /\ (hk.sample = hk.proposal) <=> HkDrawBelow

C6_Witness ==
    /\ hk.calls = 2
    /\ hk.accept
    /\ hk.sample = hk.proposal /\ hk.proposal # hk.initial_theta
    /\ hk.u > 0
    /\ HkRatio[1] < HkRatio[2]

\* ------------------------------------------------------- claims: sample_L2
\* C7: one Metropolis-Hastings step per free element in index order; step i
\* evaluates the current and the proposed posterior with the elements
\* before i at the values chosen earlier in the sweep and the elements
\* after i at their entry values; the returned vector has the length of
\* the input, and on return Ltau equals it element by element.
C7_SequentialSweep ==
    /\ l2.pc # "idle" =>
        \A k \in 1..Len(l2.evals) :
            /\ l2.evals[k].i = k
            /\ l2.L_proposal[k] \in {l2.entry[k], l2.evals[k].Last}
            /\ \A j \in 1..Len(l2.entry) :
                /\ l2.evals[k].cur[j] =
                      IF j < k THEN l2.L_proposal[j] ELSE l2.entry[j]
                /\ l2.evals[k].prop[j] =
                      IF j < k THEN l2.L_proposal[j]
                      ELSE IF j = k THEN l2.evals[k].Last ELSE l2.entry[j]
    /\ l2.pc = "returned" =>
        /\ Len(l2.evals) = Len(l2.entry)
        /\ Len(l2.ret) = Len(l2.entry)
        /\ \A j \in 1..Len(l2.ret) : l2.Ltau[j] = l2.ret[j]

C7_Witness ==
    /\ l2.pc = "returned"
    /\ l2.ret[1] # l2.entry[1]
    /\ l2.ret[2] # l2.entry[2]
    /\ l2.ret[3] = l2.entry[3] /\ l2.evals[3].Last # l2.entry[3]
    /\ l2.evals[3].cur[1] = l2.ret[1] /\ l2.evals[3].cur[2] = l2.ret[2]

====
